---- MODULE Spec2Model ----
(***************************************************************************)
(* SBMLLint, games/message.py: the MESSAGE preprocessing stage.            *)
(*   Message.__init__            builds the stoichiometry matrix of a      *)
(*                               model's non-boundary reactions            *)
(*   Message.decomposeMatrix     LU-decomposes the transposed matrix       *)
(*   Message.convertMatrixToReactions  reads a matrix back as reactions    *)
(*   Message.getReactionSummaryCategory  classifies a reactant/product     *)
(*                               pair with REACTION_SUMMARY_CATEGORIES     *)
(*                                                                         *)
(* Numbers.  The program computes with Python floats.  A number is         *)
(* modelled as an exact rational <<n, d>> in lowest terms with d > 0.      *)
(* For the inputs enumerated here with at most two reactions every         *)
(* quotient the elimination forms has a power of two as denominator, so    *)
(* binary floating point computes the same values.                         *)
(*                                                                         *)
(* A pandas DataFrame is a record [index, columns, values]: the row        *)
(* labels, the column labels and the rows of cells, addressed by position  *)
(* (labels may repeat, as pandas allows).                                  *)
(***************************************************************************)
EXTENDS Integers, Sequences, FiniteSets, TLC

VARIABLES
  pc,                    \* position of the caller's script
  simple,                \* SimpleSBML: [reactions |-> list of Reaction]
  reactions,             \* Message.reactions
  molecules,             \* Message.molecules
  stoichiometry_matrix,  \* Message.stoichiometry_matrix
  build_error,           \* exception raised by Message.__init__, or "none"
  decomp,                \* outcome of consuming decomposeMatrix(...)
  conv,                  \* outcome of convertMatrixToReactions(...)
  cls                    \* a getReactionSummaryCategory call: arguments and result

vars == <<pc, simple, reactions, molecules, stoichiometry_matrix,
          build_error, decomp, conv, cls>>

---------------------------------------------------------------------------
(* Bounds of the model *)

\* most reactions in a model
MaxReactions == 2
\* most entries in a reactant or product list handed to the classifier
MaxSide == 2
\* largest coefficient handed to the classifier
MaxStoich == 2

---------------------------------------------------------------------------
(* Arithmetic on numbers *)

IAbs(n) == IF n < 0 THEN -n ELSE n

RECURSIVE Gcd(_, _)
Gcd(a, b) == IF b = 0 THEN a ELSE Gcd(b, a % b)

\* the number n/d (d # 0) in lowest terms
Rat(n, d) ==
  LET s == IF d < 0 THEN -1 ELSE 1
      g == Gcd(IAbs(n), IAbs(d))
  IN  <<(s * n) \div g, (s * d) \div g>>

Zero == <<0, 1>>
One == <<1, 1>>

RAdd(x, y) == Rat(x[1] * y[2] + y[1] * x[2], x[2] * y[2])
RSub(x, y) == Rat(x[1] * y[2] - y[1] * x[2], x[2] * y[2])
RMul(x, y) == Rat(x[1] * y[1], x[2] * y[2])
RDiv(x, y) == Rat(x[1] * y[2], x[2] * y[1])
RAbs(x) == <<IAbs(x[1]), x[2]>>
RLt(x, y) == x[1] * y[2] < y[1] * x[2]
RLeq(x, y) == x[1] * y[2] <= y[1] * x[2]

RECURSIVE RSum(_)
RSum(s) == IF s = <<>> THEN Zero ELSE RAdd(s[1], RSum(Tail(s)))

---------------------------------------------------------------------------
(* Names from SBMLLint.common.constants used by message.py *)

EMPTYSET == "EmptySet"
REACTION_BOUNDARY == "reaction_boundary"
REACTION_1_1 == "reaction_1_1"
REACTION_1_n == "reaction_1_n"
REACTION_n_1 == "reaction_n_1"
REACTION_n_n == "reaction_n_n"
REACTION_REDUNDANT == "reaction_redundant"
REACTION_ERROR == "reaction_error"

---------------------------------------------------------------------------
(* Data *)

Molecule(name) == [name |-> name]
MoleculeStoichiometry(molecule, stoichiometry) ==
  [molecule |-> molecule, stoichiometry |-> stoichiometry]
Reaction(label, category, reactants, products) ==
  [label |-> label, category |-> category,
   reactants |-> reactants, products |-> products]
ReactionSummary(label, reactants, products, category) ==
  [label |-> label, reactants |-> reactants,
   products |-> products, category |-> category]
DataFrame(values, index, columns) ==
  [index |-> index, columns |-> columns, values |-> values]

NoFrame == DataFrame(<<>>, <<>>, <<>>)

Range(s) == {s[i] : i \in DOMAIN s}
SeqsUpTo(S, n) == UNION {[1..k -> S] : k \in 0..n}
\* the orders in which list(set) may enumerate a set
Orders(S) ==
  {s \in [1..Cardinality(S) -> S] : \A i, j \in DOMAIN s : s[i] = s[j] => i = j}

---------------------------------------------------------------------------
(* Message.__init__ and the matrix builder *)

\* for reaction in simple.reactions: if reaction.category != cn.REACTION_BOUNDARY
_getNonBoundaryReactions(s) ==
  SelectSeq(s.reactions, LAMBDA reaction : reaction.category # REACTION_BOUNDARY)

\* a variant that collects the molecules of every reaction of the model
_getMoleculesOfAllReactions(s, rs) ==
  UNION {{r.molecule.name : r \in Range(s.reactions[k].reactants)}
           \cup {p.molecule.name : p \in Range(s.reactions[k].products)} :
         k \in DOMAIN s.reactions}

\* the set accumulated by _getNonBoundaryMolecules; list(molecules) orders it
_getNonBoundaryMolecules(s, rs) ==
  UNION {{r.molecule.name : r \in Range(rs[k].reactants)}
           \cup {p.molecule.name : p \in Range(rs[k].products)} : k \in DOMAIN rs}

\* {m.molecule.name: m.stoichiometry for m in side}.get(name, default):
\* a later entry of the comprehension overwrites an earlier one
DictGet(side, name, default) ==
  LET at == {i \in DOMAIN side : side[i].molecule.name = name}
  IN  IF at = {} THEN default
      ELSE side[CHOOSE i \in at : \A j \in at : j <= i].stoichiometry

DictKeys(side) == {side[i].molecule.name : i \in DOMAIN side}

\* a variant with the two sides exchanged
NetStoichiometryReversed(reaction, molecule_name) ==
  RSub(DictGet(reaction.reactants, molecule_name, Zero),
       DictGet(reaction.products, molecule_name, Zero))

\* net_stoichiometry = products.get(name, 0.0) - reactants.get(name, 0.0)
NetStoichiometry(reaction, molecule_name) ==
  RSub(DictGet(reaction.products, molecule_name, Zero),
       DictGet(reaction.reactants, molecule_name, Zero))

\* stoichiometry_matrix[reaction.label][molecule_name] = net_stoichiometry.
\* With unique column labels df[label] is the column itself and the write
\* lands in every row labelled molecule_name.  With a repeated label among
\* the columns df[label] is a copy taken from the frame, the write lands in
\* the copy, and the frame keeps its 0.0; no exception is raised.
getStoichiometryMatrix(rs, ms) ==
  LET reaction_labels == [k \in DOMAIN rs |-> rs[k].label]
      unique == \A j, k \in DOMAIN rs : rs[j].label = rs[k].label => j = k
      cell(i, j) ==
        IF unique /\ ms[i] \in DictKeys(rs[j].reactants) \cup DictKeys(rs[j].products)
        THEN NetStoichiometry(rs[j], ms[i])
        ELSE Zero
  IN  DataFrame([i \in DOMAIN ms |-> [j \in DOMAIN rs |-> cell(i, j)]],
                ms, reaction_labels)

---------------------------------------------------------------------------
(* Message.decomposeMatrix *)

Rows(a) == Len(a)
Cols(a) == IF a = <<>> THEN 0 ELSE Len(a[1])
Transpose(a, ncols) == [j \in 1..ncols |-> [i \in 1..Len(a) |-> a[i][j]]]
Min2(m, n) == IF m <= n THEN m ELSE n

\* row of the pivot for column k: the first row at or below k whose entry
\* in column k has the largest magnitude (LAPACK idamax)
PivotRow(a, k) ==
  CHOOSE p \in k..Rows(a) :
    /\ \A i \in k..Rows(a) : RLeq(RAbs(a[i][k]), RAbs(a[p][k]))
    /\ \A i \in k..(p - 1) : RLt(RAbs(a[i][k]), RAbs(a[p][k]))

SwapAt(s, k, p) ==
  [i \in DOMAIN s |-> IF i = k THEN s[p] ELSE IF i = p THEN s[k] ELSE s[i]]

\* one column of the elimination (LAPACK getrf): interchange, scale the
\* column below the pivot, update the trailing rows.  A column whose
\* entries at and below the diagonal are all zero is left as it is.
EliminateColumn(st, k) ==
  LET p == PivotRow(st.a, k)
  IN  IF st.a[p][k] = Zero THEN st
      ELSE LET b == SwapAt(st.a, k, p)
               mult(i) == RDiv(b[i][k], b[k][k])
           IN  [a |-> [i \in DOMAIN b |->
                         IF i <= k THEN b[i]
                         ELSE [j \in DOMAIN b[i] |->
                                 IF j < k THEN b[i][j]
                                 ELSE IF j = k THEN mult(i)
                                 ELSE RSub(b[i][j], RMul(mult(i), b[k][j]))]],
                perm |-> SwapAt(st.perm, k, p)]

RECURSIVE Eliminate(_, _, _)
Eliminate(st, k, last) ==
  IF k > last THEN st ELSE Eliminate(EliminateColumn(st, k), k + 1, last)

\* scipy.linalg.lu(a) = (p, l, u) with a = p l u; a is m x n, k = min(m, n),
\* p is m x m, l is m x k with unit diagonal, u is k x n
ScipyLu(a) ==
  LET m == Rows(a)
      n == Cols(a)
      k == Min2(m, n)
      st == Eliminate([a |-> a, perm |-> [i \in 1..m |-> i]], 1, k)
  IN  <<[i \in 1..m |-> [j \in 1..m |-> IF st.perm[j] = i THEN One ELSE Zero]],
        [i \in 1..m |-> [j \in 1..k |->
           IF i = j THEN One ELSE IF i > j THEN st.a[i][j] ELSE Zero]],
        [i \in 1..k |-> [j \in 1..n |->
           IF i <= j THEN st.a[i][j] ELSE Zero]]>>

\* scipy.linalg.inv of a permutation matrix: its transpose
ScipyInv(p) == Transpose(p, Len(p))

\* pd.DataFrame(values, index=..., columns=...) of a two-dimensional array
\* raises ValueError unless the array has one row per index label
ShapeFits(values, index, columns) ==
  /\ Len(values) = Len(index)
  /\ \A i \in DOMAIN values : Len(values[i]) = Len(columns)

\* a variant without the final transposition
RowReducedUntransposed(u, index, columns) == DataFrame(u, index, columns)

\* pd.DataFrame(u, index=index, columns=columns).T
RowReduced(u, index, columns) ==
  DataFrame(Transpose(u, Len(columns)), columns, index)

\* both values the generator yields, or the exception raised when the
\* generator is advanced
decomposeMatrix(mat_df) ==
  LET mat_t == DataFrame(Transpose(mat_df.values, Len(mat_df.columns)),
                         mat_df.columns, mat_df.index)
      idx_mat_t == mat_t.index
      mat_lu == ScipyLu(mat_t.values)
      p_inv == ScipyInv(mat_lu[1])
      pivot_index == [r \in DOMAIN p_inv |->
                        CHOOSE c \in DOMAIN p_inv[r] : p_inv[r][c] = One]
      new_idx_mat_t == [r \in DOMAIN pivot_index |-> idx_mat_t[pivot_index[r]]]
  IN  IF ~ShapeFits(mat_lu[3], new_idx_mat_t, mat_t.columns)
      THEN [error |-> "ValueError", lower |-> <<>>, row_reduced |-> NoFrame]
      ELSE [error |-> "none",
            lower |-> mat_lu[2],
            row_reduced |-> RowReduced(mat_lu[3], new_idx_mat_t, mat_t.columns)]

---------------------------------------------------------------------------
(* REACTION_SUMMARY_CATEGORIES and Message.getReactionSummaryCategory *)

\* lambda x,y,r,p: (x==0) and (y==0)
PredicateRedundant(x, y, r, p) == (x = 0) /\ (y = 0)

\* lambda x,y,r,p: ((x==0) and (y!=0)) or ((x!=0) and (y==0))
PredicateError(x, y, r, p) == ((x = 0) /\ (y # 0)) \/ ((x # 0) /\ (y = 0))

\* a variant without the comparison of the sums
Predicate_1_1_Counts(x, y, r, p) == (x = 1) /\ (y = 1)

\* lambda x,y,r,p: (x==1) and (y==1) and (sum(r)==sum(p))
Predicate_1_1(x, y, r, p) == (x = 1) /\ (y = 1) /\ (RSum(r) = RSum(p))

\* lambda x,y,r,p: (x==1) and (sum([r[0]<=e for e in p])==len(p))
Predicate_1_n(x, y, r, p) ==
  (x = 1) /\ (Cardinality({i \in DOMAIN p : RLeq(r[1], p[i])}) = Len(p))

\* lambda x,y,r,p: (y==1) and (sum([p[0]<=e for e in r])==len(r))
Predicate_n_1(x, y, r, p) ==
  (y = 1) /\ (Cardinality({i \in DOMAIN r : RLeq(p[1], r[i])}) = Len(r))

REACTION_SUMMARY_CATEGORIES ==
  <<REACTION_REDUNDANT, REACTION_ERROR, REACTION_1_1, REACTION_1_n, REACTION_n_1>>

Predicate(k, x, y, r, p) ==
  CASE k = 1 -> PredicateRedundant(x, y, r, p)
    [] k = 2 -> PredicateError(x, y, r, p)
    [] k = 3 -> Predicate_1_1(x, y, r, p)
    [] k = 4 -> Predicate_1_n(x, y, r, p)
    [] k = 5 -> Predicate_n_1(x, y, r, p)

\* a variant that keeps the empty-set entries
RealUnfiltered(side) == side

\* the entries of a list that do not name the empty set
Real(side) == SelectSeq(side, LAMBDA m : m.molecule.name # EMPTYSET)

getReactionSummaryCategory(reactants, products) ==
  LET num_reactants == Len(Real(reactants))
      num_products == Len(Real(products))
      stoichiometry_reactants ==
        [i \in DOMAIN Real(reactants) |-> Real(reactants)[i].stoichiometry]
      stoichiometry_products ==
        [i \in DOMAIN Real(products) |-> Real(products)[i].stoichiometry]
      matching == {k \in DOMAIN REACTION_SUMMARY_CATEGORIES :
                     Predicate(k, num_reactants, num_products,
                               stoichiometry_reactants, stoichiometry_products)}
  IN  IF matching # {}
      THEN REACTION_SUMMARY_CATEGORIES[CHOOSE k \in matching : \A j \in matching : k <= j]
      ELSE REACTION_n_n

---------------------------------------------------------------------------
(* Message.convertMatrixToReactions *)

\* names bound at the top level of message.py: its imports, ReactionSummary,
\* the two category names, the category list and the class
ModuleNames ==
  {"cn", "Molecule", "MoleculeStoichiometry", "Reaction", "SOM", "SimpleSBML",
   "collections", "itertools", "nx", "np", "pd", "scipy", "ReactionSummary",
   "REACTION_REDUNDANT", "REACTION_ERROR", "REACTION_SUMMARY_CATEGORIES",
   "Message"}

\* names bound in the body of convertMatrixToReactions
ConvertLocals ==
  {"self", "simple", "mat_df", "reactions", "reaction_name", "reaction",
   "reduced_reaction_series", "reactants", "products"}

\* a bare name in the method body is looked up among the locals and the
\* module's names; the methods of the class are reached through self only
NameResolves(name) == name \in ConvertLocals \cup ModuleNames

\* simple.getMolecule(name) for a name of the model
getMolecule(s, name) == Molecule(name)

\* the rows of a column with a negative cell, in index order, with abs(cell)
ColumnReactants(s, mat_df, j) ==
  LET neg == SelectSeq([i \in DOMAIN mat_df.index |-> i],
                       LAMBDA i : RLt(mat_df.values[i][j], Zero))
  IN  [n \in DOMAIN neg |->
         MoleculeStoichiometry(getMolecule(s, mat_df.index[neg[n]]),
                               RAbs(mat_df.values[neg[n]][j]))]

\* the rows of a column with a positive cell, in index order, with the cell
ColumnProducts(s, mat_df, j) ==
  LET pos == SelectSeq([i \in DOMAIN mat_df.index |-> i],
                       LAMBDA i : RLt(Zero, mat_df.values[i][j]))
  IN  [n \in DOMAIN pos |->
         MoleculeStoichiometry(getMolecule(s, mat_df.index[pos[n]]),
                               mat_df.values[pos[n]][j])]

\* the loop from column j on, with the summaries appended so far.  The call
\* in line 177 names getReactionSummaryCategory without self: evaluating the
\* name raises NameError once the two lists of the column are built.
RECURSIVE ConvertFrom(_, _, _, _)
ConvertFrom(s, mat_df, j, summaries) ==
  IF j > Len(mat_df.columns)
  THEN [mat_df |-> mat_df, error |-> "none", reactions |-> summaries,
        reactants |-> <<>>, products |-> <<>>]
  ELSE LET reactants == ColumnReactants(s, mat_df, j)
           products == ColumnProducts(s, mat_df, j)
       IN  IF ~NameResolves("getReactionSummaryCategory")
           THEN [mat_df |-> mat_df, error |-> "NameError", reactions |-> <<>>,
                 reactants |-> reactants, products |-> products]
           ELSE ConvertFrom(s, mat_df, j + 1,
                  Append(summaries,
                    ReactionSummary(mat_df.columns[j], reactants, products,
                      getReactionSummaryCategory(reactants, products))))

convertMatrixToReactions(s, mat_df) == ConvertFrom(s, mat_df, 1, <<>>)

---------------------------------------------------------------------------
(* Inputs *)

Names == {"A", "B"}
Labels == {"R1", "R2", "R3"}

MS(name, n) == MoleculeStoichiometry(Molecule(name), Rat(n, 1))

\* reactant and product lists of the models' ordinary reactions
ModelSides ==
  {<<MS("A", 1)>>, <<MS("B", 1)>>, <<MS("A", 2)>>, <<MS("A", 1), MS("B", 1)>>}

\* reactant and product lists of the models' boundary reactions
BoundaryShapes == {<< <<>>, <<MS("B", 1)>> >>, << <<MS("A", 1)>>, <<>> >>}

\* every category other than the boundary one is treated alike by the
\* program; the ordinary reactions carry one such tag
ModelReactions ==
  {Reaction(l, REACTION_n_n, r, p) :
     l \in Labels, r \in ModelSides, p \in ModelSides}
  \cup {Reaction(l, REACTION_BOUNDARY, sh[1], sh[2]) :
          l \in Labels, sh \in BoundaryShapes}

Models == {[reactions |-> rs] : rs \in SeqsUpTo(ModelReactions, MaxReactions)}

---------------------------------------------------------------------------
(* The caller's script over one model *)

NoDecomp == [error |-> "none", lower |-> <<>>, row_reduced |-> NoFrame]
NoConv == [mat_df |-> NoFrame, error |-> "none", reactions |-> <<>>,
           reactants |-> <<>>, products |-> <<>>]
NoCls == [reactants |-> <<>>, products |-> <<>>, category |-> "none"]

Init ==
  /\ pc = "loaded"
  /\ simple \in Models
  /\ reactions = <<>>
  /\ molecules = <<>>
  /\ stoichiometry_matrix = NoFrame
  /\ build_error = "none"
  /\ decomp = NoDecomp
  /\ conv = NoConv
  /\ cls = NoCls

\* Message(simple)
Construct ==
  /\ pc = "loaded"
  /\ LET rs == _getNonBoundaryReactions(simple)
     IN  \E ms \in Orders(_getNonBoundaryMolecules(simple, rs)) :
           /\ reactions' = rs
           /\ molecules' = ms
           /\ stoichiometry_matrix' = getStoichiometryMatrix(rs, ms)
  /\ build_error' = "none"
  /\ pc' = "constructed"
  /\ UNCHANGED <<simple, decomp, conv, cls>>

\* list(message.decomposeMatrix(message.stoichiometry_matrix)); the matrix
\* has at least one molecule and one reaction
Decompose ==
  /\ pc = "constructed"
  /\ Len(stoichiometry_matrix.index) >= 1
  /\ Len(stoichiometry_matrix.columns) >= 1
  /\ decomp' = decomposeMatrix(stoichiometry_matrix)
  /\ pc' = "decomposed"
  /\ UNCHANGED <<simple, reactions, molecules, stoichiometry_matrix,
                 build_error, conv, cls>>

\* message.convertMatrixToReactions(simple, message.stoichiometry_matrix)
ConvertStoichiometry ==
  /\ pc = "constructed"
  /\ conv' = convertMatrixToReactions(simple, stoichiometry_matrix)
  /\ pc' = "converted"
  /\ UNCHANGED <<simple, reactions, molecules, stoichiometry_matrix,
                 build_error, decomp, cls>>

\* message.convertMatrixToReactions(simple, row_reduced)
ConvertReduced ==
  /\ pc = "decomposed"
  /\ decomp.error = "none"
  /\ conv' = convertMatrixToReactions(simple, decomp.row_reduced)
  /\ pc' = "converted"
  /\ UNCHANGED <<simple, reactions, molecules, stoichiometry_matrix,
                 build_error, decomp, cls>>

Next == Construct \/ Decompose \/ ConvertStoichiometry \/ ConvertReduced

Spec == Init /\ [][Next]_vars

---------------------------------------------------------------------------
(* The classifier on its own: getReactionSummaryCategory(reactants, products) *)

ClassifierEntries ==
  {MoleculeStoichiometry(Molecule(name), Rat(n, 1)) :
     name \in {"A", EMPTYSET}, n \in 0..MaxStoich}

ClassifierSides == SeqsUpTo(ClassifierEntries, MaxSide)

InitClassify ==
  /\ pc = "classify"
  /\ simple = [reactions |-> <<>>]
  /\ reactions = <<>>
  /\ molecules = <<>>
  /\ stoichiometry_matrix = NoFrame
  /\ build_error = "none"
  /\ decomp = NoDecomp
  /\ conv = NoConv
  /\ \E r \in ClassifierSides, p \in ClassifierSides :
       cls = [reactants |-> r, products |-> p, category |-> "none"]

Classify ==
  /\ pc = "classify"
  /\ cls' = [cls EXCEPT !.category =
               getReactionSummaryCategory(cls.reactants, cls.products)]
  /\ pc' = "classified"
  /\ UNCHANGED <<simple, reactions, molecules, stoichiometry_matrix,
                 build_error, decomp, conv>>

NextClassify == Classify

SpecClassify == InitClassify /\ [][NextClassify]_vars

---------------------------------------------------------------------------
(* Properties *)

\* the same labels, each as often
IsPermutation(s, t) ==
  /\ Len(s) = Len(t)
  /\ \A x \in Range(s) \cup Range(t) :
       Cardinality({i \in DOMAIN s : s[i] = x}) = Cardinality({i \in DOMAIN t : t[i] = x})

Built == pc \in {"constructed", "decomposed", "converted"}

\* the entries of a list that name molecule m
EntriesOf(side, m) == {i \in DOMAIN side : side[i].molecule.name = m}

\* the coefficient of m in a list that names it at most once, 0 if absent
CoefficientOf(side, m) ==
  IF EntriesOf(side, m) = {} THEN <<0, 1>>
  ELSE side[CHOOSE i \in EntriesOf(side, m) : TRUE].stoichiometry

\* x = a - b, by cross-multiplication
IsDifference(x, a, b) == x[1] * a[2] * b[2] = x[2] * (a[1] * b[2] - b[1] * a[2])

\* the reaction list is one of the data model: labels are unique and a
\* reactant or product list names a molecule once
WellFormedReactions ==
  /\ \A j, k \in DOMAIN reactions : reactions[j].label = reactions[k].label => j = k
  /\ \A k \in DOMAIN reactions : \A m \in Names :
       /\ Cardinality(EntriesOf(reactions[k].reactants, m)) <= 1
       /\ Cardinality(EntriesOf(reactions[k].products, m)) <= 1

\* the cell of row m and column label
CellAt(df, m, label) ==
  df.values[CHOOSE i \in DOMAIN df.index : df.index[i] = m]
           [CHOOSE j \in DOMAIN df.columns : df.columns[j] = label]

(* C1: for a reaction list with unique labels, every reaction r and every   *)
(* molecule m of the molecule list have a cell (m, r.label) in the built    *)
(* matrix, equal to m's product coefficient in r (0 if absent) minus m's    *)
(* reactant coefficient in r (0 if absent); the cell is 0 when m is not     *)
(* involved in r and when m is on both sides with equal coefficients.       *)
C1_BuilderCells ==
  (Built /\ WellFormedReactions) =>
    \A k \in DOMAIN reactions : \A m \in Range(molecules) :
      LET r == reactions[k]
          prod == CoefficientOf(r.products, m)
          reac == CoefficientOf(r.reactants, m)
      IN  /\ \E i \in DOMAIN stoichiometry_matrix.index :
               stoichiometry_matrix.index[i] = m
          /\ \E j \in DOMAIN stoichiometry_matrix.columns :
               stoichiometry_matrix.columns[j] = r.label
          /\ IsDifference(CellAt(stoichiometry_matrix, m, r.label), prod, reac)
          /\ (EntriesOf(r.products, m) = {} /\ EntriesOf(r.reactants, m) = {})
               => CellAt(stoichiometry_matrix, m, r.label)[1] = 0
          /\ (EntriesOf(r.products, m) # {} /\ EntriesOf(r.reactants, m) # {}
                /\ prod = reac)
               => CellAt(stoichiometry_matrix, m, r.label)[1] = 0

\* a built matrix with a molecule not involved in a reaction, a molecule on
\* both sides of a reaction with equal coefficients, and a consumed molecule
C1_Witness ==
  /\ Built /\ WellFormedReactions /\ Len(reactions) = 2
  /\ \E k \in DOMAIN reactions : \E m \in Range(molecules) :
       /\ EntriesOf(reactions[k].products, m) = {}
       /\ EntriesOf(reactions[k].reactants, m) = {}
  /\ \E k \in DOMAIN reactions : \E m \in Range(molecules) :
       /\ EntriesOf(reactions[k].products, m) # {}
       /\ EntriesOf(reactions[k].reactants, m) # {}
       /\ CoefficientOf(reactions[k].products, m) = CoefficientOf(reactions[k].reactants, m)
       /\ CellAt(stoichiometry_matrix, m, reactions[k].label)[1] = 0
  /\ \E k \in DOMAIN reactions : \E m \in Range(molecules) :
       CellAt(stoichiometry_matrix, m, reactions[k].label)[1] < 0

(* C2: building the matrix from a reaction list in which two reactions     *)
(* share a label fails with DuplicateLabelError and produces no matrix.    *)
C2_DuplicateLabelFails ==
  (/\ Built
   /\ \E j, k \in DOMAIN reactions : j # k /\ reactions[j].label = reactions[k].label)
    => (build_error = "DuplicateLabelError" /\ stoichiometry_matrix = NoFrame)

(* C3: for every non-empty stoichiometry matrix, with more reactions than  *)
(* molecules too, the reduction completes without error and the reduced    *)
(* matrix has the input's numbers of rows and columns.                     *)
C3_ReductionKeepsShape ==
  (pc = "decomposed") =>
    /\ decomp.error = "none"
    /\ Len(decomp.row_reduced.index) = Len(stoichiometry_matrix.index)
    /\ Len(decomp.row_reduced.columns) = Len(stoichiometry_matrix.columns)
    /\ ShapeFits(decomp.row_reduced.values, stoichiometry_matrix.index,
                 stoichiometry_matrix.columns)

Reduced == pc = "decomposed" /\ decomp.error = "none"

(* C4, as claimed: the reduced matrix has the input's column labels in the *)
(* input's order, and its row index is a permutation of the input's row    *)
(* index.                                                                  *)
C4_ColumnsKeptRowsPermuted ==
  Reduced =>
    /\ decomp.row_reduced.columns = stoichiometry_matrix.columns
    /\ IsPermutation(decomp.row_reduced.index, stoichiometry_matrix.index)

(* C4, amended: the reduced matrix has the input's row index (molecule     *)
(* names) in the input's order, and its column labels (reaction labels)    *)
(* are a permutation of the input's column labels.                         *)
C4_RowsKeptColumnsPermuted ==
  Reduced =>
    /\ decomp.row_reduced.index = stoichiometry_matrix.index
    /\ IsPermutation(decomp.row_reduced.columns, stoichiometry_matrix.columns)
    /\ ShapeFits(decomp.row_reduced.values, decomp.row_reduced.index,
                 decomp.row_reduced.columns)

\* a reduction whose pivoting moved a reaction label
C4_Witness ==
  /\ Reduced
  /\ decomp.row_reduced.columns # stoichiometry_matrix.columns
  /\ Len(stoichiometry_matrix.index) = 2

Converted == pc = "converted"

\* every column label is a reaction of the model and every row label a
\* molecule of the model
Resolvable(df) ==
  /\ \A j \in DOMAIN df.columns :
       \E k \in DOMAIN simple.reactions : simple.reactions[k].label = df.columns[j]
  /\ \A i \in DOMAIN df.index :
       \E k \in DOMAIN simple.reactions :
         df.index[i] \in DictKeys(simple.reactions[k].reactants)
                          \cup DictKeys(simple.reactions[k].products)

(* C5: when every column and row name resolves through the lookup, the     *)
(* conversion raises no error and returns one ReactionSummary per matrix   *)
(* column, in column order, whose category is getReactionSummaryCategory   *)
(* of the summary's reactant and product lists.                            *)
C5_ConvertReturnsSummaries ==
  (Converted /\ Resolvable(conv.mat_df)) =>
    /\ conv.error = "none"
    /\ Len(conv.reactions) = Len(conv.mat_df.columns)
    /\ \A j \in DOMAIN conv.reactions :
         /\ conv.reactions[j].label = conv.mat_df.columns[j]
         /\ conv.reactions[j].category =
              getReactionSummaryCategory(conv.reactions[j].reactants,
                                         conv.reactions[j].products)

\* molecule m is listed with coefficient c in a list
Listed(side, m, c) ==
  \E e \in Range(side) : e.molecule.name = m /\ e.stoichiometry = c

(* C7: in the summary of each column, a molecule row is a reactant with    *)
(* coefficient abs(cell) iff the cell is negative, a product with          *)
(* coefficient cell iff the cell is positive, and in neither list iff the  *)
(* cell is zero; no molecule is in both lists.                             *)
C7_SignPartition ==
  Converted =>
    \A j \in DOMAIN conv.mat_df.columns : \A i \in DOMAIN conv.mat_df.index :
      LET cell == conv.mat_df.values[i][j]
          m == conv.mat_df.index[i]
      IN  /\ j \in DOMAIN conv.reactions
          /\ (cell[1] < 0) <=> Listed(conv.reactions[j].reactants, m, <<-cell[1], cell[2]>>)
          /\ (cell[1] > 0) <=> Listed(conv.reactions[j].products, m, cell)
          /\ (cell[1] = 0) <=>
               (/\ EntriesOf(conv.reactions[j].reactants, m) = {}
                /\ EntriesOf(conv.reactions[j].products, m) = {})
          /\ ~(/\ EntriesOf(conv.reactions[j].reactants, m) # {}
               /\ EntriesOf(conv.reactions[j].products, m) # {})

Classified == pc = "classified"

\* the entries of a list that are not the empty-set placeholder
RealEntries(side) == {i \in DOMAIN side : side[i].molecule.name # EMPTYSET}
TheCoefficient(side) == side[CHOOSE i \in RealEntries(side) : TRUE].stoichiometry

\* one real reactant and one real product with unequal coefficients
OneEachUnequal ==
  /\ Classified
  /\ Cardinality(RealEntries(cls.reactants)) = 1
  /\ Cardinality(RealEntries(cls.products)) = 1
  /\ TheCoefficient(cls.reactants) # TheCoefficient(cls.products)

(* C6, as claimed: a reaction with one real reactant and one real product  *)
(* of unequal coefficients is not one-to-one, not error, and gets the      *)
(* default many-to-many category.                                          *)
C6_FallsToManyToMany ==
  OneEachUnequal => cls.category = REACTION_n_n

(* C6, amended: such a reaction is not one-to-one and not error; it is     *)
(* one-to-many when the reactant's coefficient is below the product's and  *)
(* many-to-one when it is above, and never many-to-many.                   *)
C6_OneToManyOrManyToOne ==
  OneEachUnequal =>
    LET r == TheCoefficient(cls.reactants)
        p == TheCoefficient(cls.products)
    IN  /\ cls.category \notin {REACTION_1_1, REACTION_ERROR, REACTION_n_n}
        /\ (r[1] * p[2] < p[1] * r[2]) => cls.category = REACTION_1_n
        /\ (r[1] * p[2] > p[1] * r[2]) => cls.category = REACTION_n_1

\* a classified reaction A (coefficient 2) -> A (coefficient 1), with an
\* empty-set entry beside the reactant
C6_Witness ==
  /\ OneEachUnequal
  /\ Len(cls.reactants) = 2
  /\ TheCoefficient(cls.reactants) = <<2, 1>>
  /\ TheCoefficient(cls.products) = <<1, 1>>
  /\ cls.category = REACTION_n_1

(* C8: for every pair of lists the classifier returns one name of          *)
(* {redundant, error, one-to-one, one-to-many, many-to-one, many-to-many}, *)
(* and redundant whenever neither list has a real entry.                   *)
C8_ClassifierTotal ==
  Classified =>
    /\ cls.category \in {REACTION_REDUNDANT, REACTION_ERROR, REACTION_1_1,
                         REACTION_1_n, REACTION_n_1, REACTION_n_n}
    /\ (RealEntries(cls.reactants) = {} /\ RealEntries(cls.products) = {})
         => cls.category = REACTION_REDUNDANT

\* a classified pair of lists that hold empty-set placeholders only
C8_Witness ==
  /\ Classified
  /\ Len(cls.reactants) = 2 /\ Len(cls.products) = 1
  /\ RealEntries(cls.reactants) = {} /\ RealEntries(cls.products) = {}
  /\ cls.category = REACTION_REDUNDANT

\* the positions of the model's reactions that are not boundary reactions
Kept == {i \in DOMAIN simple.reactions :
           simple.reactions[i].category # REACTION_BOUNDARY}
NthKept(k) == CHOOSE i \in Kept : Cardinality({j \in Kept : j <= i}) = k
NamesOf(reaction) ==
  {reaction.reactants[i].molecule.name : i \in DOMAIN reaction.reactants}
    \cup {reaction.products[i].molecule.name : i \in DOMAIN reaction.products}

(* C9: after construction the reaction list is the model's non-boundary    *)
(* reactions in model order, the molecule list holds once each name that   *)
(* is a reactant or product of a non-boundary reaction, and the matrix has *)
(* one column per such reaction and one row per such molecule.             *)
C9_NonBoundaryOnly ==
  Built =>
    /\ Len(reactions) = Cardinality(Kept)
    /\ \A k \in DOMAIN reactions : reactions[k] = simple.reactions[NthKept(k)]
    /\ Range(molecules) = UNION {NamesOf(simple.reactions[i]) : i \in Kept}
    /\ \A i, j \in DOMAIN molecules : molecules[i] = molecules[j] => i = j
    /\ stoichiometry_matrix.columns = [k \in DOMAIN reactions |-> reactions[k].label]
    /\ stoichiometry_matrix.index = molecules
    /\ ShapeFits(stoichiometry_matrix.values, molecules, reactions)

\* a constructed Message of a model with a boundary reaction that alone
\* uses some molecule, beside a non-boundary reaction
C9_Witness ==
  /\ Built
  /\ Kept # {}
  /\ \E b \in DOMAIN simple.reactions \ Kept :
       \E m \in NamesOf(simple.reactions[b]) :
         /\ \A i \in Kept : m \notin NamesOf(simple.reactions[i])
         /\ m \notin Range(molecules)
         /\ Len(stoichiometry_matrix.columns) = Cardinality(Kept)

ColumnIsZero(df, j) == \A i \in DOMAIN df.index : df.values[i][j][1] = 0

\* two columns that are exact negatives of each other, not both zero
NegatedColumns(df) ==
  /\ Len(df.columns) = 2
  /\ \A i \in DOMAIN df.index :
       /\ df.values[i][1][1] = -df.values[i][2][1]
       /\ df.values[i][1][2] = df.values[i][2][2]
  /\ ~ColumnIsZero(df, 1)

(* C10: for a matrix of two reactions whose columns are exact negatives of *)
(* each other, a reduction that completes leaves one reaction column       *)
(* all-zero and the other with the non-zero net stoichiometry.             *)
C10_DependencyExposed ==
  (Reduced /\ NegatedColumns(stoichiometry_matrix)) =>
    \E j \in 1..2 :
      /\ ColumnIsZero(decomp.row_reduced, j)
      /\ ~ColumnIsZero(decomp.row_reduced, 3 - j)

====
